---- MODULE Spec2Model ----
(***************************************************************************)
(* A model of cfndeployer: the stack lifecycle orchestrator                *)
(* (cfndeployer/stack.py, class Stack) driving a CloudFormation endpoint,  *)
(* and the checksum uploader (cfndeployer/package.py, class S3Uploader)    *)
(* writing to an S3 bucket.  The remote services are oracles: every call   *)
(* draws its response from the responses the service can give in the       *)
(* current remote state.                                                   *)
(***************************************************************************)
EXTENDS Integers, Sequences, FiniteSets, TLC

VARIABLES
    inst,                \* outcome of Stack.__init__: "none", "ok", "EmptyStackName"
    request,             \* the keyword arguments as handed to Stack(...)
    kwargs,              \* self.kwargs of the Stack instance
    client,              \* TRUE once Session(...).client('cloudformation') was created
    op,                  \* the public method being run: deploy, create, update, delete
    execute_change_set,  \* the argument of deploy()
    pc,                  \* position of the running method (the next remote call)
    calls,               \* remote calls issued by the current invocation, in order
    outcome,             \* how the current invocation ended
    ops,                 \* number of invocations started on the instance
    change_sets,         \* name and type of every create_change_set submitted
    stack,               \* remote StackStatus of the named stack, or "ABSENT"
    now,                 \* wall clock, in ticks of 1/TicksPerSecond second
    bucket,              \* TRUE when the target S3 bucket exists
    store,               \* the objects of the bucket: key -> bytes
    up,                  \* per process: its S3Uploader and the upload call it runs
    puts,                \* physical transfers to the bucket: transfer -> how often
    uploads,             \* number of upload calls started
    pkg,                 \* the Package instance and the package() call it runs
    fs                   \* the local file system: directories and written files

stackVars == <<inst, request, kwargs, client, op, execute_change_set, pc, calls,
               outcome, ops, change_sets, stack, now>>

uploadVars == <<bucket, store, up, puts, uploads>>

packageVars == <<pkg, fs>>

vars == <<inst, request, kwargs, client, op, execute_change_set, pc, calls,
          outcome, ops, change_sets, stack, now, bucket, store, up, puts, uploads,
          pkg, fs>>

----------------------------------------------------------------------------
(* Bounds of the model *)

MaxOps == 2             \* invocations on one Stack instance
MaxTime == 3            \* last tick of the clock
TicksPerSecond == 2     \* clock resolution
NumProcs == 2           \* uploader processes sharing the bucket
MaxUploads == 2         \* upload calls over all processes
MaxPackages == 2        \* package() calls on one Package instance

----------------------------------------------------------------------------
(* Dictionaries are functions from a set of keys *)

EmptyDict == [k \in {} |-> ""]

Put(d, key, val) ==
    [k \in (DOMAIN d) \cup {key} |-> IF k = key THEN val ELSE d[k]]

Count(bag, e) == Put(bag, e, IF e \in DOMAIN bag THEN bag[e] + 1 ELSE 1)

Restrict(d, keys) == [k \in (DOMAIN d) \cap keys |-> d[k]]

(* Text is a sequence of tokens; "a in b" of Python is containment of a   *)
(* contiguous run of tokens.                                              *)
Contains(hay, needle) ==
    \E i \in 1..(Len(hay) + 1) :
        /\ i + Len(needle) - 1 <= Len(hay)
        /\ SubSeq(hay, i, i + Len(needle) - 1) = needle

Truthy(text) == Len(text) > 0

----------------------------------------------------------------------------
(* Allow-lists of stack.py *)

CFN_KWARGS ==
    {"StackName", "TemplateBody", "TemplateURL", "Parameters",
     "NotificationARNs", "Capabilities", "ResourceTypes", "RoleARN",
     "StackPolicyBody", "StackPolicyURL", "Tags", "ClientRequestToken"}

KWARGS == CFN_KWARGS

CREATE_KWARGS == KWARGS \cup {"DisableRollback", "TimeoutInMinutes", "OnFailure"}

UPDATE_KWARGS ==
    KWARGS \cup {"UsePreviousTemplate", "StackPolicyDuringUpdateBody",
                 "StackPolicyDuringUpdateURL"}

DELETE_KWARGS == {"StackName", "RetainResources", "RoleARN", "ClientRequestToken"}

DESCRIBE_STACKS == {"StackName", "NextToken"}

CREATE_CHANGE_SET_KWARGS ==
    KWARGS \cup {"UsePreviousTemplate", "ChangeSetName", "ClientToken",
                 "Description", "ChangeSetType"}

EXECUTE_CHANGE_SET == {"ChangeSetName", "StackName", "ClientRequestToken"}

CHANGE_SET_PREFIX == "stack-change-set-"

WAIT_KWARGS == DESCRIBE_STACKS

WAIT_CHANGE_SET_KWARGS == DESCRIBE_STACKS \cup {"ChangeSetName"}

prepare_kwargs_all(kw, kwargs_list) == kw

prepare_kwargs(kw, kwargs_list) == Restrict(kw, kwargs_list)

----------------------------------------------------------------------------
(* The local file system seen by os.path.isfile and open *)

TemplateFiles == {"template.yaml"}

FileText(path) == "Resources: from-file"

\* Requests handed to the constructor of Stack
NameChoices == {EmptyDict, [StackName |-> "app"]}

TemplateChoices ==
    {EmptyDict,
     [TemplateBody |-> "Resources: inline"],
     [TemplateBody |-> "template.yaml"],
     [TemplateURL |-> "https://bucket/template"]}

ExtraChoices ==
    {EmptyDict,
     [ChangeSetName |-> "mine"],
     [Profile |-> "dev", ChangeSetType |-> "IMPORT", DisableRollback |-> "true",
      RetainResources |-> "r1"]}

Merge(a, b) ==
    [k \in (DOMAIN a) \cup (DOMAIN b) |-> IF k \in DOMAIN b THEN b[k] ELSE a[k]]

Requests ==
    {Merge(Merge(n, t), x) : n \in NameChoices, t \in TemplateChoices,
                             x \in ExtraChoices}

----------------------------------------------------------------------------
(* Remote responses.  A response is ok or an exception raised by the call *)

NoText == <<>>

Ok(data) == [kind |-> "ok", exc |-> "", msg |-> NoText, data |-> data]

Error(exc, msg, data) == [kind |-> "error", exc |-> exc, msg |-> msg, data |-> data]

StackStatuses ==
    {"ABSENT", "REVIEW_IN_PROGRESS", "CREATE_COMPLETE", "UPDATE_COMPLETE",
     "ROLLBACK_COMPLETE"}

NotFoundText(name) == <<"Stack with id", name, "does not exist">>

AccessDeniedText == <<"User is not authorized to perform this action">>

NoUpdatesText == <<"No updates are to be performed", ".">>

NoChangesText ==
    <<"The submitted information didn't contain changes.",
      "Submit different information to create a change set.">>

OtherReasonText == <<"Template error: resource type is not supported">>

(* botocore exceptions that are not ClientError subclasses *)
ConnectionError == Error("EndpointConnectionError", <<"Could not connect">>, EmptyDict)

ValidateResponses ==
    {Ok(EmptyDict),
     Error("ClientError", <<"ValidationError", "Template format error">>, EmptyDict),
     Error("ParamValidationError", <<"Invalid type for parameter">>, EmptyDict),
     ConnectionError}

DescribeResponses(name) ==
    (IF stack = "ABSENT"
        THEN {Error("ClientError",
                    <<"ValidationError">> \o NotFoundText(name), EmptyDict)}
        ELSE {Ok([StackStatus |-> stack])})
    \cup {Error("ClientError", AccessDeniedText, EmptyDict), ConnectionError}

MutateResponses ==
    {Ok(EmptyDict), Error("ClientError", AccessDeniedText, EmptyDict), ConnectionError}

UpdateResponses ==
    MutateResponses
    \cup {Error("ClientError", <<"ValidationError">> \o NoUpdatesText, EmptyDict)}

(* last_response of a failed change_set_create_complete waiter *)
LastResponses ==
    {[Status |-> "FAILED", StatusReason |-> NoChangesText],
     [Status |-> "FAILED", StatusReason |-> NoUpdatesText],
     [Status |-> "FAILED", StatusReason |-> OtherReasonText],
     [Status |-> "CREATE_IN_PROGRESS"],
     [Error |-> AccessDeniedText]}

ChangeSetWaitResponses ==
    {Ok(EmptyDict)}
    \cup {Error("WaiterError", <<"Waiter ChangeSetCreateComplete failed">>, r) :
            r \in LastResponses}

StackWaitResponses ==
    {Ok(EmptyDict),
     Error("WaiterError", <<"Waiter encountered a terminal failure state">>, EmptyDict)}

----------------------------------------------------------------------------
(* Outcomes of an invocation *)

Idle == [status |-> "none", exc |-> "", cause |-> Ok(EmptyDict), ctx |-> EmptyDict]

Running == [status |-> "running", exc |-> "", cause |-> Ok(EmptyDict), ctx |-> EmptyDict]

Returned == [status |-> "returned", exc |-> "", cause |-> Ok(EmptyDict), ctx |-> EmptyDict]

\* exceptions.py: the placeholders of each class's msg template
MsgFields(exc) ==
    CASE exc \in {"TemplateNotSpecified", "TemplateValidationError",
                  "InvalidTemplatePathError"} -> {"error"}
      [] exc \in {"EmptyChangeSet", "UpdateStackError", "StackDoesntExist",
                  "StackAlreadyExist"} -> {"stack_name"}
      [] exc = "DeployFailed" -> {"stack_name", "ex"}
      [] OTHER -> {}

\* CloudFormationException.__init__: msg.format(**kwargs) raises KeyError for
\* a placeholder the keyword arguments do not name
NewException(exc, ctx) ==
    IF MsgFields(exc) \subseteq DOMAIN ctx THEN exc ELSE "KeyError"

\* raise Exc(ctx), where cause is the remote error it was built from
Raised(exc, cause, ctx) ==
    [status |-> "raised", exc |-> NewException(exc, ctx), cause |-> cause,
     ctx |-> ctx]

\* re-raise of the caught remote error
Propagated(resp) == Raised(resp.exc, resp, EmptyDict)

Call(api, args, resp) == [api |-> api, args |-> args, resp |-> resp]

----------------------------------------------------------------------------
(* Stack.__init__ *)

StackInitCheckLast(kw) ==
    IF "StackName" \notin DOMAIN kw
        THEN [inst |-> NewException("EmptyStackName", EmptyDict), kwargs |-> kw,
              client |-> TRUE]
        ELSE [inst |-> "ok", kwargs |-> kw, client |-> TRUE]

\* an exception in __init__ leaves no instance: nothing is stored
StackInit(kw) ==
    IF "StackName" \notin DOMAIN kw
        THEN [inst |-> NewException("EmptyStackName", EmptyDict),
              kwargs |-> EmptyDict, client |-> FALSE]
        ELSE [inst |-> "ok", kwargs |-> kw, client |-> TRUE]

Construct(kw) ==
    /\ inst = "none"
    /\ LET r == StackInit(kw) IN
        /\ inst' = r.inst
        /\ request' = r.kwargs
        /\ kwargs' = r.kwargs
        /\ client' = r.client
    /\ UNCHANGED <<op, execute_change_set, pc, calls, outcome, ops, change_sets, stack, now>>
    /\ UNCHANGED uploadVars
    /\ UNCHANGED packageVars

----------------------------------------------------------------------------
(* The public methods: an invocation starts at its first remote step *)

Begin(exec, first) ==
    /\ inst = "ok"
    /\ pc = "idle"
    /\ ops < MaxOps
    /\ execute_change_set' = exec
    /\ pc' = first
    /\ calls' = <<>>
    /\ outcome' = Running
    /\ ops' = ops + 1
    /\ UNCHANGED <<inst, request, kwargs, client, change_sets, stack, now>>
    /\ UNCHANGED uploadVars
    /\ UNCHANGED packageVars

Deploy(exec) ==
    /\ op' = "deploy"
    /\ Begin(exec, "validate")

Create ==
    /\ op' = "create"
    /\ Begin(TRUE, "validate")

Update ==
    /\ op' = "update"
    /\ Begin(TRUE, "validate")

Delete ==
    /\ op' = "delete"
    /\ Begin(TRUE, "describe")

(* the invocation ends: return 0, or an exception leaves the method *)
Finish(result) ==
    /\ outcome' = result
    /\ pc' = "idle"

Goto(label) ==
    /\ pc' = label
    /\ UNCHANGED outcome

next_step_always_execute(method, step, exec) ==
    CASE step = "validate" -> "describe"
      [] step = "describe" /\ method = "deploy" -> "create_change_set"
      [] step = "describe" /\ method # "deploy" -> method \o "_stack"
      [] step = "create_change_set" -> "wait_change_set"
      [] step = "wait_change_set" -> "execute_change_set"
      [] step = "execute_change_set" -> "wait_execute"
      [] step \in {"create_stack", "update_stack", "delete_stack"} -> "wait_stack"
      [] OTHER -> "return"

\* the bodies of deploy, create, update and delete: the step that follows a
\* step that did not raise
next_step(method, step, exec) ==
    CASE step = "validate" -> "describe"
      [] step = "describe" /\ method = "deploy" -> "create_change_set"
      [] step = "describe" /\ method # "deploy" -> method \o "_stack"
      [] step = "create_change_set" -> "wait_change_set"
      [] step = "wait_change_set" /\ exec -> "execute_change_set"
      [] step = "execute_change_set" -> "wait_execute"
      [] step \in {"create_stack", "update_stack", "delete_stack"} -> "wait_stack"
      [] OTHER -> "return"

\* the step did not raise: on to the next one, or return 0
Advance(step) ==
    LET next == next_step(op, step, execute_change_set) IN
    IF next = "return" THEN Finish(Returned) ELSE Goto(next)

----------------------------------------------------------------------------
(* Stack._validate_template *)

isfile(path) == path \in TemplateFiles

KeyError == Error("KeyError", NoText, EmptyDict)

validate_result_lenient(resp) ==
    IF resp.kind = "ok" \/ resp.exc = "ClientError" THEN Running
    ELSE IF resp.exc \in {"ValidationError", "ParamValidationError"}
        THEN Raised("TemplateValidationError", resp, [error |-> resp.msg])
    ELSE Propagated(resp)

validate_result(resp) ==
    IF resp.kind = "ok" THEN Running
    ELSE IF resp.exc \in {"ValidationError", "ClientError", "ParamValidationError"}
        THEN Raised("TemplateValidationError", resp, [error |-> resp.msg])
    ELSE Propagated(resp)

ValidateTemplate ==
    /\ pc = "validate"
    /\ IF "TemplateBody" \in DOMAIN kwargs
        THEN LET body == IF isfile(kwargs["TemplateBody"])
                            THEN FileText(kwargs["TemplateBody"])
                            ELSE kwargs["TemplateBody"]
             IN \E resp \in ValidateResponses :
                 /\ kwargs' = Put(kwargs, "TemplateBody", body)
                 /\ calls' = Append(calls,
                        Call("validate_template", [TemplateBody |-> body], resp))
                 /\ IF validate_result(resp) = Running
                        THEN Advance("validate")
                        ELSE Finish(validate_result(resp))
        ELSE IF "TemplateURL" \in DOMAIN kwargs
        THEN \E resp \in ValidateResponses :
                 /\ calls' = Append(calls,
                        Call("validate_template",
                             [TemplateURL |-> kwargs["TemplateURL"]], resp))
                 /\ IF validate_result(resp) = Running
                        THEN Advance("validate")
                        ELSE Finish(validate_result(resp))
                 /\ UNCHANGED kwargs
        ELSE /\ Finish(Raised("TemplateNotSpecified", KeyError,
                              [error |-> KeyError.msg]))
             /\ UNCHANGED <<kwargs, calls>>
    /\ UNCHANGED <<inst, request, client, op, execute_change_set, ops, change_sets, stack, now>>
    /\ UNCHANGED uploadVars
    /\ UNCHANGED packageVars

----------------------------------------------------------------------------
(* Stack._describe_stack and Stack._stack_exists *)

describe_stack_swallow(resp, name) ==
    IF resp.kind = "ok" THEN [kind |-> "stack", stack |-> resp.data]
    ELSE [kind |-> "False", stack |-> EmptyDict]

\* the value of _describe_stack for a describe_stacks response: the stack,
\* False, or the re-raised error
describe_stack(resp, name) ==
    IF resp.kind = "ok" THEN [kind |-> "stack", stack |-> resp.data]
    ELSE IF resp.exc = "ClientError" /\ Contains(resp.msg, NotFoundText(name))
        THEN [kind |-> "False", stack |-> EmptyDict]
    ELSE [kind |-> "raise", stack |-> EmptyDict]

stack_exists_always(described) == TRUE

stack_exists_never(described) == FALSE

stack_exists_cached(described) ==
    IF Len(change_sets) > 0 THEN change_sets[1].type = "UPDATE"
    ELSE IF described.kind = "False" THEN FALSE
    ELSE described.stack["StackStatus"] # "REVIEW_IN_PROGRESS"

stack_exists(described) ==
    IF described.kind = "False" THEN FALSE
    ELSE described.stack["StackStatus"] # "REVIEW_IN_PROGRESS"

DescribeCall(resp) ==
    Call("describe_stacks", prepare_kwargs(kwargs, DESCRIBE_STACKS), resp)

----------------------------------------------------------------------------
(* Stack._create_change_set: name and type, then the submission *)

int(t) == t \div TicksPerSecond

change_set_name(kw, t) ==
    IF "ChangeSetName" \notin DOMAIN kw
        THEN Put(kw, "ChangeSetName", CHANGE_SET_PREFIX \o ToString(int(t)))
        ELSE kw

change_set_type_keep(kw, exists) ==
    IF "ChangeSetType" \in DOMAIN kw THEN kw
    ELSE IF ~exists THEN Put(kw, "ChangeSetType", "CREATE")
    ELSE Put(kw, "ChangeSetType", "UPDATE")

change_set_type(kw, exists) ==
    IF ~exists THEN Put(Put(kw, "ChangeSetType", "UPDATE"), "ChangeSetType", "CREATE")
               ELSE Put(kw, "ChangeSetType", "UPDATE")

CreateChangeSetCheck ==
    /\ pc = "describe"
    /\ op = "deploy"
    /\ LET named == change_set_name(kwargs, now)
           typed == Put(named, "ChangeSetType", "UPDATE")
       IN \E resp \in DescribeResponses(kwargs["StackName"]) :
           LET described == describe_stack(resp, kwargs["StackName"]) IN
           /\ calls' = Append(calls, DescribeCall(resp))
           /\ IF described.kind = "raise"
                THEN /\ kwargs' = typed
                     /\ Finish(Propagated(resp))
                ELSE /\ kwargs' = change_set_type(named, stack_exists(described))
                     /\ Advance("describe")
    /\ UNCHANGED <<inst, request, client, op, execute_change_set, ops, change_sets, stack, now>>
    /\ UNCHANGED uploadVars
    /\ UNCHANGED packageVars

CreateChangeSet ==
    /\ pc = "create_change_set"
    /\ \E resp \in MutateResponses :
        /\ calls' = Append(calls,
              Call("create_change_set",
                   prepare_kwargs(kwargs, CREATE_CHANGE_SET_KWARGS), resp))
        /\ IF resp.kind = "ok" THEN Advance("create_change_set")
                               ELSE Finish(Propagated(resp))
    /\ change_sets' = Append(change_sets, [run |-> ops, name |-> kwargs["ChangeSetName"],
                         type |-> kwargs["ChangeSetType"]])
    /\ UNCHANGED <<inst, request, kwargs, client, op, execute_change_set, ops, stack, now>>
    /\ UNCHANGED uploadVars
    /\ UNCHANGED packageVars

----------------------------------------------------------------------------
(* Stack._wait_for_change_set *)

EmptyMsg ==
    <<<<"No updates are to be performed">>,
      <<"The submitted information didn't contain changes.">>>>

is_empty_change_set_none(status, reason) ==
    status = "FAILED" /\ ~Contains(reason, EmptyMsg[1]) /\ ~Contains(reason, EmptyMsg[2])

\* status == 'FAILED' and (msg[0] or msg[1] not in reason)
is_empty_change_set(status, reason) ==
    status = "FAILED" /\ (Truthy(EmptyMsg[1]) \/ ~Contains(reason, EmptyMsg[2]))

\* the exception leaving the except-branch for WaiterError e
change_set_failure(e, name) ==
    LET resp == e.data IN
    IF "Status" \notin DOMAIN resp \/ "StatusReason" \notin DOMAIN resp
        THEN Raised("KeyError", KeyError, EmptyDict)
    ELSE IF is_empty_change_set(resp["Status"], resp["StatusReason"])
        THEN Raised("EmptyChangeSet", e, [stack_name |-> name])
    ELSE Propagated(e)

WaitForChangeSet ==
    /\ pc = "wait_change_set"
    /\ \E resp \in ChangeSetWaitResponses \cup {ConnectionError} :
        /\ calls' = Append(calls,
              Call("wait:change_set_create_complete",
                   prepare_kwargs(kwargs, WAIT_CHANGE_SET_KWARGS), resp))
        /\ IF resp.kind = "ok"
             THEN Advance("wait_change_set")
           ELSE IF resp.exc = "WaiterError"
             THEN Finish(change_set_failure(resp, kwargs["StackName"]))
           ELSE Finish(Propagated(resp))
    /\ UNCHANGED <<inst, request, kwargs, client, op, execute_change_set, ops, change_sets, stack, now>>
    /\ UNCHANGED uploadVars
    /\ UNCHANGED packageVars

----------------------------------------------------------------------------
(* Stack._execute_change_set and Stack._wait_for_execute *)

ExecuteChangeSet ==
    /\ pc = "execute_change_set"
    /\ \E resp \in MutateResponses :
        /\ calls' = Append(calls,
              Call("execute_change_set",
                   prepare_kwargs(kwargs, EXECUTE_CHANGE_SET), resp))
        /\ IF resp.kind = "ok" THEN Advance("execute_change_set")
                               ELSE Finish(Propagated(resp))
    /\ UNCHANGED <<inst, request, kwargs, client, op, execute_change_set, ops, change_sets, stack, now>>
    /\ UNCHANGED uploadVars
    /\ UNCHANGED packageVars

execute_waiter_always_update(type) == "wait:stack_update_complete"

execute_waiter(type) ==
    IF type = "CREATE" THEN "wait:stack_create_complete"
    ELSE IF type = "UPDATE" THEN "wait:stack_update_complete"
    ELSE "unbound"

WaitForExecute ==
    /\ pc = "wait_execute"
    /\ LET waiter == execute_waiter(kwargs["ChangeSetType"]) IN
       IF waiter = "unbound"
         THEN /\ Finish(Raised("UnboundLocalError",
                               Error("UnboundLocalError", NoText, EmptyDict),
                               EmptyDict))
              /\ UNCHANGED calls
         ELSE \E resp \in StackWaitResponses \cup {ConnectionError} :
              /\ calls' = Append(calls,
                    Call(waiter, prepare_kwargs(kwargs, DESCRIBE_STACKS), resp))
              /\ IF resp.kind = "ok" THEN Advance("wait_execute")
                 ELSE IF resp.exc = "WaiterError"
                   THEN Finish(Raised("DeployFailed", resp,
                                      [stack_name |-> kwargs["StackName"],
                                       ex |-> resp.msg]))
                 ELSE Finish(Propagated(resp))
    /\ UNCHANGED <<inst, request, kwargs, client, op, execute_change_set, ops, change_sets, stack, now>>
    /\ UNCHANGED uploadVars
    /\ UNCHANGED packageVars

----------------------------------------------------------------------------
(* Stack._create_stack, Stack._update_stack, Stack._delete_stack *)

\* the existence check in front of create_stack, update_stack, delete_stack:
\* the exception it raises, or Running when the method goes on
exists_guard(method, exists, name) ==
    IF method = "create" /\ exists
        THEN Raised("StackAlreadyExist", Ok(EmptyDict), [stack_name |-> name])
    ELSE IF method \in {"update", "delete"} /\ ~exists
        THEN Raised("StackDoesntExist", Ok(EmptyDict), [stack_name |-> name])
    ELSE Running

StackCheck(method) ==
    /\ pc = "describe"
    /\ \E resp \in DescribeResponses(kwargs["StackName"]) :
        LET described == describe_stack(resp, kwargs["StackName"]) IN
        /\ calls' = Append(calls, DescribeCall(resp))
        /\ IF described.kind = "raise"
             THEN Finish(Propagated(resp))
             ELSE LET guard == exists_guard(method, stack_exists(described),
                                            kwargs["StackName"])
                  IN IF guard = Running THEN Advance("describe") ELSE Finish(guard)
    /\ UNCHANGED <<inst, request, kwargs, client, op, execute_change_set, ops, change_sets, stack, now>>
    /\ UNCHANGED uploadVars
    /\ UNCHANGED packageVars

CreateStackCheck ==
    /\ op = "create"
    /\ StackCheck("create")

UpdateStackCheck ==
    /\ op = "update"
    /\ StackCheck("update")

DeleteStackCheck ==
    /\ op = "delete"
    /\ StackCheck("delete")

CreateStack ==
    /\ pc = "create_stack"
    /\ \E resp \in MutateResponses :
        /\ calls' = Append(calls,
              Call("create_stack", prepare_kwargs(kwargs, CREATE_KWARGS), resp))
        /\ IF resp.kind = "ok" THEN Advance("create_stack")
                               ELSE Finish(Propagated(resp))
    /\ UNCHANGED <<inst, request, kwargs, client, op, execute_change_set, ops, change_sets, stack, now>>
    /\ UNCHANGED uploadVars
    /\ UNCHANGED packageVars

\* raise ClientError: the class is instantiated without its two arguments
BareClientError ==
    Error("TypeError", <<"__init__() missing 2 required positional arguments">>,
          EmptyDict)

update_failure_generic(ex, name) == Propagated(ex)

update_failure(ex, name) ==
    IF ex.exc = "ClientError"
        THEN IF Contains(ex.msg, NoUpdatesText)
                THEN Raised("UpdateStackError", ex, [stack_name |-> name])
                ELSE Propagated(BareClientError)
        ELSE Propagated(ex)

UpdateStack ==
    /\ pc = "update_stack"
    /\ \E resp \in UpdateResponses :
        /\ calls' = Append(calls,
              Call("update_stack", prepare_kwargs(kwargs, UPDATE_KWARGS), resp))
        /\ IF resp.kind = "ok"
             THEN Advance("update_stack")
             ELSE Finish(update_failure(resp, kwargs["StackName"]))
    /\ UNCHANGED <<inst, request, kwargs, client, op, execute_change_set, ops, change_sets, stack, now>>
    /\ UNCHANGED uploadVars
    /\ UNCHANGED packageVars

DeleteStack ==
    /\ pc = "delete_stack"
    /\ \E resp \in MutateResponses :
        /\ calls' = Append(calls,
              Call("delete_stack", prepare_kwargs(kwargs, DELETE_KWARGS), resp))
        /\ IF resp.kind = "ok" THEN Advance("delete_stack")
                               ELSE Finish(Propagated(resp))
    /\ UNCHANGED <<inst, request, kwargs, client, op, execute_change_set, ops, change_sets, stack, now>>
    /\ UNCHANGED uploadVars
    /\ UNCHANGED packageVars

(* Stack._wait_for_stack *)
stack_waiter(method) == "wait:stack_" \o method \o "_complete"

WaitForStack ==
    /\ pc = "wait_stack"
    /\ \E resp \in StackWaitResponses \cup {ConnectionError} :
        /\ calls' = Append(calls,
              Call(stack_waiter(op), prepare_kwargs(kwargs, WAIT_KWARGS), resp))
        /\ IF resp.kind = "ok" THEN Advance("wait_stack")
                               ELSE Finish(Propagated(resp))
    /\ UNCHANGED <<inst, request, kwargs, client, op, execute_change_set, ops, change_sets, stack, now>>
    /\ UNCHANGED uploadVars
    /\ UNCHANGED packageVars

----------------------------------------------------------------------------
(* The environment: the service and other actors move the stack, time passes *)

RemoteChange(status) ==
    /\ status # stack
    /\ stack' = status
    /\ UNCHANGED <<inst, request, kwargs, client, op, execute_change_set, pc, calls,
                   outcome, ops, change_sets, now>>
    /\ UNCHANGED uploadVars
    /\ UNCHANGED packageVars

Tick ==
    /\ now < MaxTime
    /\ now' = now + 1
    /\ UNCHANGED <<inst, request, kwargs, client, op, execute_change_set, pc, calls,
                   outcome, ops, change_sets, stack>>
    /\ UNCHANGED uploadVars
    /\ UNCHANGED packageVars

----------------------------------------------------------------------------
(* package.py: S3Uploader *)

Procs == 1..NumProcs

bucket_name == "artifacts"

\* local files: two paths with the same bytes, one with other bytes
Files == {"a.zip", "copy-of-a.zip", "b.zip"}

FileBytes(filename) == IF filename = "b.zip" THEN <<1, 0>> ELSE <<0, 1>>

Extensions == {"", "zip"}

Prefixes == {"", "app"}

block_size == 4096

read(bytes, pos, size) ==
    SubSeq(bytes, pos + 1, IF pos + size < Len(bytes) THEN pos + size ELSE Len(bytes))

RECURSIVE hexdigest(_)
\* the digest as text; distinct hashed bytes give distinct digests (MD5
\* collisions are outside the model)
hexdigest(hashed) ==
    IF hashed = <<>> THEN "" ELSE ToString(Head(hashed)) \o hexdigest(Tail(hashed))

RECURSIVE md5_update(_, _, _)
md5_update(bytes, pos, hashed) ==
    LET buf == read(bytes, pos, block_size) IN
    IF Len(buf) > 0 THEN md5_update(bytes, pos + Len(buf), hashed \o buf)
                    ELSE hashed

file_checksum_by_size(bytes) == ToString(Len(bytes))

file_checksum(bytes) == hexdigest(md5_update(bytes, 0, <<>>))

dedup_path(filemd5, extension) ==
    IF extension # "" THEN filemd5 \o "." \o extension ELSE filemd5

with_prefix(prefix, remote_path) ==
    IF prefix # "" /\ Len(prefix) > 0 THEN prefix \o "/" \o remote_path
                                      ELSE remote_path

make_url(obj_path) == "s3://" \o bucket_name \o "/" \o obj_path

NotFound == Error("ClientError", <<"404", "Not Found">>, [Code |-> "404"])

Forbidden == Error("ClientError", <<"403", "Forbidden">>, [Code |-> "403"])

NoSuchBucket ==
    Error("ClientError", <<"The specified bucket does not exist">>,
          [Code |-> "NoSuchBucket"])

HeadResponses(key) ==
    (IF bucket /\ key \in DOMAIN store THEN {Ok(EmptyDict)} ELSE {NotFound})
    \cup {Forbidden, ConnectionError}

TransferResponses ==
    (IF bucket THEN {Ok(EmptyDict)} ELSE {NoSuchBucket}) \cup {Forbidden}

\* S3Uploader.file_exists: True, False, or the exception that leaves it
file_exists(resp) ==
    IF resp.kind = "ok" THEN "True"
    ELSE IF resp.exc = "ClientError" THEN "False"
    ELSE "raise"

NoProbe == [kind |-> "none", exc |-> "", msg |-> NoText, data |-> EmptyDict]

NoResult == [status |-> "none", value |-> "", exc |-> "", cause |-> NoProbe]

UrlReturned(url) == [status |-> "returned", value |-> url, exc |-> "", cause |-> NoProbe]

UploadRaised(exc, cause, ctx) ==
    [status |-> "raised", value |-> "", exc |-> NewException(exc, ctx),
     cause |-> cause]

\* the except-branch of S3Uploader.upload
upload_failure(ex) ==
    IF ex.exc = "ClientError"
        THEN IF ex.data["Code"] = "NoSuchBucket"
                THEN UploadRaised("NoSuchBucketException", ex,
                                  [bucket_name |-> bucket_name])
                ELSE UploadRaised(ex.exc, ex, EmptyDict)
        ELSE UploadRaised(ex.exc, ex, EmptyDict)

NoUploader ==
    [made |-> FALSE, prefix |-> "", force_upload |-> FALSE, pc |-> "idle",
     body |-> <<>>, extension |-> "", remote_path |-> "", before |-> <<>>,
     probe |-> NoProbe, sent |-> FALSE, result |-> NoResult]

\* S3Uploader.__init__(s3_client, bucket_name, region, prefix=None,
\* kms_key_id=None, force_upload=False)
S3UploaderInit(prefix, force_upload) ==
    [NoUploader EXCEPT !.made = TRUE, !.prefix = prefix,
                       !.force_upload = force_upload]

NewUploader(p, prefix) ==
    /\ ~up[p].made
    /\ up' = [up EXCEPT ![p] = S3UploaderInit(prefix, FALSE)]
    /\ UNCHANGED <<bucket, store, puts, uploads>>
    /\ UNCHANGED stackVars
    /\ UNCHANGED packageVars

\* Package.__init__: S3Uploader(client, bucket, region, prefix, None, True)
PackageKwargs == {[TemplateFile |-> "template.yaml", StackName |-> "app"]}

PackageUploader(kw) ==
    S3UploaderInit(IF "StackName" \in DOMAIN kw THEN kw["StackName"] ELSE "cfn",
                   TRUE)

PackageInit(p, kw) ==
    /\ ~up[p].made
    /\ up' = [up EXCEPT ![p] = PackageUploader(kw)]
    /\ UNCHANGED <<bucket, store, puts, uploads>>
    /\ UNCHANGED stackVars
    /\ UNCHANGED packageVars

\* S3Uploader.upload up to the probe: the prefixed key, and whether to probe
upload_key(prefix, remote_path) == with_prefix(prefix, remote_path)

\* S3Uploader.upload_with_dedup, into S3Uploader.upload
UploadWithDedup(p, file_name, extension) ==
    LET filemd5 == file_checksum(FileBytes(file_name))
        key == upload_key(up[p].prefix, dedup_path(filemd5, extension))
    IN
    /\ up[p].made
    /\ up[p].pc = "idle"
    /\ uploads < MaxUploads
    /\ uploads' = uploads + 1
    /\ up' = [up EXCEPT ![p] =
                [@ EXCEPT !.pc = IF ~up[p].force_upload THEN "probe" ELSE "transfer",
                          !.body = FileBytes(file_name),
                          !.extension = extension,
                          !.remote_path = key,
                          !.before = IF key \in DOMAIN store THEN store[key] ELSE <<>>]]
    /\ UNCHANGED <<bucket, store, puts>>
    /\ UNCHANGED stackVars
    /\ UNCHANGED packageVars

\* self.file_exists(remote_path) in S3Uploader.upload
Probe(p) ==
    /\ up[p].pc = "probe"
    /\ \E resp \in HeadResponses(up[p].remote_path) :
        LET found == file_exists(resp) IN
        up' = [up EXCEPT ![p] =
                [@ EXCEPT !.probe = resp,
                          !.pc = IF found = "False" THEN "transfer" ELSE "done",
                          !.result =
                             IF found = "True"
                                THEN UrlReturned(make_url(up[p].remote_path))
                             ELSE IF found = "raise"
                                THEN UploadRaised(resp.exc, resp, EmptyDict)
                             ELSE NoResult]]
    /\ UNCHANGED <<bucket, store, puts, uploads>>
    /\ UNCHANGED stackVars
    /\ UNCHANGED packageVars

\* self.transfer_manager.upload(...).result() in S3Uploader.upload
Transfer(p) ==
    /\ up[p].pc = "transfer"
    /\ \E resp \in TransferResponses :
        LET key == up[p].remote_path IN
        IF resp.kind = "ok"
          THEN /\ store' = Put(store, key, up[p].body)
               /\ puts' = Count(puts,
                     [key |-> key, bytes |-> up[p].body,
                      prefix |-> up[p].prefix, extension |-> up[p].extension])
               /\ up' = [up EXCEPT ![p] =
                           [@ EXCEPT !.pc = "done", !.sent = TRUE,
                                     !.result = UrlReturned(make_url(key))]]
          ELSE /\ up' = [up EXCEPT ![p] =
                           [@ EXCEPT !.pc = "done",
                                     !.result = upload_failure(resp)]]
               /\ UNCHANGED <<store, puts>>
    /\ UNCHANGED <<bucket, uploads>>
    /\ UNCHANGED stackVars
    /\ UNCHANGED packageVars

\* the call is over: the caller has its locator or its exception
Return(p) ==
    /\ up[p].pc = "done"
    /\ up' = [up EXCEPT ![p] = S3UploaderInit(up[p].prefix, up[p].force_upload)]
    /\ UNCHANGED <<bucket, store, puts, uploads>>
    /\ UNCHANGED stackVars
    /\ UNCHANGED packageVars

----------------------------------------------------------------------------
(* package.py: Package *)

\* the process that owns the Package instance and its uploader
PackageProc == 1

\* a path is the sequence of its components; '' is the empty sequence
None == [none |-> TRUE, path |-> <<>>]

Path(components) == [none |-> FALSE, path |-> components]

DefaultOutputFile == Path(<<"template.package">>)

OutputChoices ==
    {EmptyDict,
     [OutputFile |-> None],
     [OutputFile |-> Path(<<"template.out">>)],
     [OutputFile |-> Path(<<"out", "template.out">>)]}

TemplateFileChoices ==
    {EmptyDict, [TemplateFile |-> "template.yaml"], [TemplateFile |-> "missing.yaml"]}

PackageRequests ==
    {Merge(Merge(t, o), n) : t \in TemplateFileChoices, o \in OutputChoices,
                             n \in NameChoices}

\* kwargs.get(key, default)
get(kw, key, default) == IF key \in DOMAIN kw THEN kw[key] ELSE default

NoFiles == [dirs |-> {}, files |-> EmptyDict]

NoPackage ==
    [state |-> "none", error |-> "", session |-> FALSE, kwargs |-> EmptyDict,
     pc |-> "idle", runs |-> 0, use_json |-> FALSE, output_file |-> None,
     exported |-> FALSE, before |-> NoFiles, result |-> NoResult]

\* Package.__init__ up to the Session: the exception that leaves it, if any
package_init(kw) ==
    IF "TemplateFile" \notin DOMAIN kw
        THEN NewException("TemplateNotSpecified", EmptyDict)
    ELSE IF ~isfile(kw["TemplateFile"])
        THEN NewException("InvalidTemplatePathError", EmptyDict)
    ELSE ""

PackageNew(kw) ==
    /\ pkg.state = "none"
    /\ LET error == package_init(kw) IN
        /\ pkg' = [pkg EXCEPT !.state = IF error = "" THEN "made" ELSE "failed",
                              !.error = error,
                              !.kwargs = kw,
                              !.session = (error = "")]
        /\ up' = IF error = ""
                    THEN [up EXCEPT ![PackageProc] = PackageUploader(kw)]
                    ELSE up
    /\ UNCHANGED <<fs, bucket, store, puts, uploads>>
    /\ UNCHANGED stackVars

\* Package.package up to the export
PackageCall(use_json) ==
    /\ pkg.state = "made"
    /\ pkg.pc = "idle"
    /\ pkg.runs < MaxPackages
    /\ pkg' = [pkg EXCEPT !.pc = "export",
                          !.runs = pkg.runs + 1,
                          !.use_json = use_json,
                          !.output_file = get(pkg.kwargs, "OutputFile", DefaultOutputFile),
                          !.exported = FALSE,
                          !.before = fs,
                          !.result = NoResult]
    /\ UNCHANGED <<fs, bucket, store, up, puts, uploads>>
    /\ UNCHANGED stackVars

\* Package._export: the exporter requests uploads of the template's local
\* artifacts from the uploader, then returns the rewritten document or fails
ExportUpload(file_name, extension) ==
    /\ pkg.pc = "export"
    /\ UploadWithDedup(PackageProc, file_name, extension)

ExportTransfer ==
    /\ pkg.pc = "export"
    /\ Transfer(PackageProc)

ExportReturn ==
    /\ pkg.pc = "export"
    /\ Return(PackageProc)

ExportOutcomes == {"", "ExportException"}

Export ==
    /\ pkg.pc = "export"
    /\ up[PackageProc].pc = "idle"
    /\ \E exc \in ExportOutcomes :
        pkg' = IF exc = ""
                 THEN [pkg EXCEPT !.pc = "write", !.exported = TRUE]
                 ELSE [pkg EXCEPT !.pc = "idle",
                                  !.result = [NoResult EXCEPT !.status = "raised",
                                                              !.exc = exc]]
    /\ UNCHANGED <<fs, bucket, store, up, puts, uploads>>
    /\ UNCHANGED stackVars

\* os.path.dirname, os.path.exists
dirname(path) == SubSeq(path, 1, Len(path) - 1)

exists(files, path) ==
    path # <<>> /\ (path \in files.dirs \/ path \in DOMAIN files.files)

\* outcomes of os.makedirs for a directory that was not there at the check
MakedirsOutcomes == {"ok", "EEXIST", "EACCES"}

write(files, filename, data) ==
    [files |-> [files EXCEPT !.files = Put(files.files, filename, data)], exc |-> ""]

\* Package._write_output: the file system after it and the exception, if any
write_output(filename, data, files, made) ==
    IF filename.none THEN [files |-> files, exc |-> ""]
    ELSE LET dir == dirname(filename.path) IN
         IF ~exists(files, dir)
           THEN IF dir = <<>>
                  THEN [files |-> files, exc |-> "FileNotFoundError"]
                ELSE IF made \in {"ok", "EEXIST"}
                  THEN write([files EXCEPT !.dirs = @ \cup {dir}], filename.path, data)
                ELSE [files |-> files, exc |-> "PermissionError"]
           ELSE write(files, filename.path, data)

\* json.dumps or yaml.safe_dump of the exported template
dump(use_json) == IF use_json THEN "json" ELSE "yaml"

\* Package.package from the write to the return
WriteOutput ==
    /\ pkg.pc = "write"
    /\ \E made \in MakedirsOutcomes :
        LET r == write_output(pkg.output_file, dump(pkg.use_json), fs, made) IN
        /\ fs' = r.files
        /\ pkg' = [pkg EXCEPT !.pc = "idle",
                              !.result =
                                 IF r.exc = ""
                                   THEN [NoResult EXCEPT !.status = "returned"]
                                   ELSE [NoResult EXCEPT !.status = "raised",
                                                         !.exc = r.exc]]
    /\ UNCHANGED <<bucket, store, up, puts, uploads>>
    /\ UNCHANGED stackVars

----------------------------------------------------------------------------

StackStart ==
    /\ inst = "none"
    /\ request = EmptyDict
    /\ kwargs = EmptyDict
    /\ client = FALSE
    /\ op = "none"
    /\ execute_change_set = TRUE
    /\ pc = "idle"
    /\ calls = <<>>
    /\ outcome = Idle
    /\ ops = 0
    /\ change_sets = <<>>
    /\ now = 0

UploadStart ==
    /\ store = EmptyDict
    /\ up = [p \in Procs |-> NoUploader]
    /\ puts = [t \in {} |-> 0]
    /\ uploads = 0

PackageStart ==
    /\ pkg = NoPackage
    /\ fs = NoFiles

Init ==
    /\ StackStart
    /\ stack \in StackStatuses
    /\ UploadStart
    /\ bucket = TRUE
    /\ PackageStart

Next ==
    \/ \E kw \in Requests : Construct(kw)
    \/ \E exec \in BOOLEAN : Deploy(exec)
    \/ Create
    \/ Update
    \/ Delete
    \/ ValidateTemplate
    \/ CreateChangeSetCheck
    \/ CreateChangeSet
    \/ WaitForChangeSet
    \/ ExecuteChangeSet
    \/ WaitForExecute
    \/ CreateStackCheck
    \/ CreateStack
    \/ UpdateStackCheck
    \/ UpdateStack
    \/ DeleteStackCheck
    \/ DeleteStack
    \/ WaitForStack
    \/ \E status \in StackStatuses : RemoteChange(status)
    \/ Tick

Spec == Init /\ [][Next]_vars

(* The uploader processes against one bucket *)
UploadInit ==
    /\ StackStart
    /\ stack = "ABSENT"
    /\ UploadStart
    /\ bucket \in BOOLEAN
    /\ PackageStart

UploadNext ==
    \/ \E p \in Procs, prefix \in Prefixes : NewUploader(p, prefix)
    \/ \E p \in Procs, kw \in PackageKwargs : PackageInit(p, kw)
    \/ \E p \in Procs, f \in Files, ext \in Extensions : UploadWithDedup(p, f, ext)
    \/ \E p \in Procs : Probe(p)
    \/ \E p \in Procs : Transfer(p)
    \/ \E p \in Procs : Return(p)

UploadSpec == UploadInit /\ [][UploadNext]_vars

(* One Package instance: construction, then package() calls *)
PackageSpecInit ==
    /\ StackStart
    /\ stack = "ABSENT"
    /\ UploadStart
    /\ bucket \in BOOLEAN
    /\ pkg = NoPackage
    /\ fs \in {NoFiles, [NoFiles EXCEPT !.dirs = {<<"out">>}]}

PackageNext ==
    \/ \E kw \in PackageRequests : PackageNew(kw)
    \/ \E use_json \in BOOLEAN : PackageCall(use_json)
    \/ \E f \in Files, ext \in Extensions : ExportUpload(f, ext)
    \/ ExportTransfer
    \/ ExportReturn
    \/ Export
    \/ WriteOutput

PackageSpec == PackageSpecInit /\ [][PackageNext]_vars

----------------------------------------------------------------------------
(* Reading the log of the current invocation *)

Issued(api) == \E i \in 1..Len(calls) : calls[i].api = api

IsNotFound(resp) ==
    /\ resp.kind = "error"
    /\ resp.exc = "ClientError"
    /\ Contains(resp.msg, NotFoundText(kwargs["StackName"]))

\* describe_stacks answered with a stack that counts as existing
DescribedExisting ==
    \E i \in 1..Len(calls) :
        /\ calls[i].api = "describe_stacks"
        /\ calls[i].resp.kind = "ok"
        /\ calls[i].resp.data["StackStatus"] # "REVIEW_IN_PROGRESS"

\* describe_stacks answered not-found, or with a stack that is only under review
DescribedMissing ==
    \E i \in 1..Len(calls) :
        /\ calls[i].api = "describe_stacks"
        /\ \/ IsNotFound(calls[i].resp)
           \/ /\ calls[i].resp.kind = "ok"
              /\ calls[i].resp.data["StackStatus"] = "REVIEW_IN_PROGRESS"

RaisedWith(exc) == outcome.status = "raised" /\ outcome.exc = exc

KnownNoChange(reason) ==
    Contains(reason, EmptyMsg[1]) \/ Contains(reason, EmptyMsg[2])

\* the change-set waiter failed on a FAILED change set with a no-change reason
WaitedEmptyChangeSet ==
    \E i \in 1..Len(calls) :
        /\ calls[i].api = "wait:change_set_create_complete"
        /\ calls[i].resp.exc = "WaiterError"
        /\ {"Status", "StatusReason"} \subseteq DOMAIN calls[i].resp.data
        /\ calls[i].resp.data["Status"] = "FAILED"
        /\ KnownNoChange(calls[i].resp.data["StatusReason"])

----------------------------------------------------------------------------
\* C1: create() that finds the stack existing (describe_stacks returns a stack
\* whose status is not REVIEW_IN_PROGRESS) ends with StackAlreadyExist naming
\* the stack, and its invocation issues neither create_stack nor the
\* create-complete wait.
C1_CreateOnExistingStack ==
    (op = "create" /\ DescribedExisting) =>
        /\ RaisedWith("StackAlreadyExist")
        /\ outcome.ctx = [stack_name |-> kwargs["StackName"]]
        /\ ~Issued("create_stack")
        /\ ~Issued("wait:stack_create_complete")

C1_Witness ==
    /\ op = "create"
    /\ DescribedExisting
    /\ RaisedWith("StackAlreadyExist")
    /\ calls[Len(calls)].resp.data["StackStatus"] = "ROLLBACK_COMPLETE"

\* C2: update() and delete() that find the stack missing (describe_stacks
\* reports not-found, or the stack is only in REVIEW_IN_PROGRESS) end with
\* StackDoesntExist, and the invocation issues no update_stack, no
\* delete_stack and no completion wait.
C2_MutateMissingStack ==
    (op \in {"update", "delete"} /\ DescribedMissing) =>
        /\ RaisedWith("StackDoesntExist")
        /\ outcome.ctx = [stack_name |-> kwargs["StackName"]]
        /\ ~Issued("update_stack")
        /\ ~Issued("delete_stack")
        /\ ~Issued("wait:stack_update_complete")
        /\ ~Issued("wait:stack_delete_complete")

C2_Witness ==
    /\ op = "delete"
    /\ ops = 2
    /\ RaisedWith("StackDoesntExist")
    /\ IsNotFound(calls[Len(calls)].resp)

\* C3: deploy() whose change set ends FAILED with one of the known no-change
\* reasons ends with EmptyChangeSet, not with the waiter's error, and its
\* invocation never calls execute_change_set.
C3_EmptyDiffDeploy ==
    (op = "deploy" /\ WaitedEmptyChangeSet) =>
        /\ RaisedWith("EmptyChangeSet")
        /\ outcome.ctx = [stack_name |-> kwargs["StackName"]]
        /\ ~Issued("execute_change_set")

C3_Witness ==
    /\ op = "deploy"
    /\ execute_change_set
    /\ WaitedEmptyChangeSet
    /\ RaisedWith("EmptyChangeSet")
    /\ calls[Len(calls)].resp.data["StatusReason"] = NoChangesText

\* C4: a failed change-set wait is classified as EmptyChangeSet only when the
\* change set's status is FAILED and its reason is a known no-change reason.
C4_OnlyNoChangeIsEmpty ==
    (op = "deploy" /\ RaisedWith("EmptyChangeSet")) => WaitedEmptyChangeSet

\* C4, second half: every other failure of the change-set wait leaves the
\* method as the waiter's own WaiterError.
C4_OtherFailuresPropagate ==
    (op = "deploy" /\ pc = "idle" /\ Len(calls) > 0
        /\ calls[Len(calls)].api = "wait:change_set_create_complete"
        /\ calls[Len(calls)].resp.exc = "WaiterError"
        /\ ~WaitedEmptyChangeSet) =>
            outcome = Propagated(calls[Len(calls)].resp)

----------------------------------------------------------------------------
\* the remote steps of deploy() other than the existence query, in order
DeploySteps(waiter) ==
    <<"validate_template", "create_change_set",
      "wait:change_set_create_complete", "execute_change_set", waiter>>

StepsIssued == SelectSeq([i \in 1..Len(calls) |-> calls[i].api],
                         LAMBDA a : a # "describe_stacks")

IsPrefix(a, b) == Len(a) <= Len(b) /\ a = SubSeq(b, 1, Len(a))

ChangeSetWaitSucceededBefore(j) ==
    \E i \in 1..(j - 1) :
        /\ calls[i].api = "wait:change_set_create_complete"
        /\ calls[i].resp.kind = "ok"

\* C5: deploy() issues validate_template, create_change_set, the change-set
\* wait, execute_change_set and the stack-complete wait in this order;
\* execute_change_set follows a change-set wait that returned successfully;
\* with execute_change_set=False it is never issued and deploy returns
\* success right after the change-set wait.
C5_DeployOrder ==
    op = "deploy" =>
        /\ \/ IsPrefix(StepsIssued, DeploySteps("wait:stack_create_complete"))
           \/ IsPrefix(StepsIssued, DeploySteps("wait:stack_update_complete"))
        /\ \A j \in 1..Len(calls) :
              calls[j].api = "execute_change_set" => ChangeSetWaitSucceededBefore(j)
        /\ ~execute_change_set =>
              /\ ~Issued("execute_change_set")
              /\ ChangeSetWaitSucceededBefore(Len(calls) + 1) =>
                    /\ outcome = Returned
                    /\ calls[Len(calls)].api = "wait:change_set_create_complete"

C5_Witness ==
    /\ op = "deploy"
    /\ execute_change_set
    /\ outcome = Returned
    /\ StepsIssued = DeploySteps("wait:stack_update_complete")

C5_WitnessPreview ==
    /\ op = "deploy"
    /\ ~execute_change_set
    /\ outcome = Returned

\* C6: constructing a Stack without StackName fails with EmptyStackName: no
\* client is created, no request state is stored, and no method of the
\* instance ever runs, so no remote call follows.
C6_EmptyStackName ==
    /\ (inst # "ok") =>
          /\ ~client
          /\ kwargs = EmptyDict
          /\ ops = 0
          /\ pc = "idle"
          /\ calls = <<>>
    /\ (inst # "none" /\ "StackName" \notin DOMAIN kwargs) =>
          inst = "EmptyStackName"

C6_Witness == inst = "EmptyStackName"

----------------------------------------------------------------------------
(* Reading the uploader processes *)

InCall(p) == up[p].pc # "idle"

Finished(p) == up[p].pc = "done"

GotLocator(p) == Finished(p) /\ up[p].result.status = "returned"

SameContent(p, q) ==
    /\ up[p].body = up[q].body
    /\ up[p].extension = up[q].extension
    /\ up[p].prefix = up[q].prefix

Transfers == DOMAIN puts

\* a head-object error that says the object is absent
IsAbsence(resp) ==
    resp.kind = "error" /\ resp.exc = "ClientError" /\ resp.data["Code"] = "404"

\* C7: upload_with_dedup calls on identical bytes (same extension and prefix)
\* all yield the same remote key, and at most one physical transfer of those
\* bytes to that key is performed over all the calls.
C7_DedupOneTransfer ==
    /\ \A p, q \in Procs :
          (InCall(p) /\ InCall(q) /\ SameContent(p, q)) =>
              up[p].remote_path = up[q].remote_path
    /\ \A t \in Transfers : puts[t] <= 1

\* C8: upload with force_upload unset against a key that already exists
\* performs no transfer, leaves the stored object unchanged, and a locator it
\* returns is the locator of the existing object.
C8_ExistingKeyNoTransfer ==
    \A p \in Procs :
        (Finished(p) /\ ~up[p].force_upload /\ up[p].before # <<>>) =>
            /\ ~up[p].sent
            /\ store[up[p].remote_path] = up[p].before
            /\ up[p].result.status = "returned" =>
                  up[p].result.value = make_url(up[p].remote_path)

\* C9: a head-object error that does not say the object is absent leaves
\* file_exists as that error: the call ends with it and transfers nothing.
C9_ProbeErrorsPropagate ==
    \A p \in Procs :
        (up[p].probe.kind = "error" /\ ~IsAbsence(up[p].probe)) =>
            /\ Finished(p)
            /\ ~up[p].sent
            /\ up[p].result.status = "raised"
            /\ up[p].result.cause = up[p].probe

\* C10 as stated: the bucket never holds two objects with the same bytes, and
\* no key is written with two different contents.
C10_OneObjectPerContent ==
    /\ \A k1, k2 \in DOMAIN store : store[k1] = store[k2] => k1 = k2
    /\ \A t1, t2 \in Transfers : t1.key = t2.key => t1.bytes = t2.bytes

\* C10, amended: under every interleaving of the processes' probes and
\* transfers, uploads of the same bytes with the same prefix and extension
\* write one key only, so the bucket holds at most one object for them, and
\* that object with those bytes once a call has returned its locator; no key
\* is written with two different contents.
C10_OneObjectPerDedupKey ==
    /\ \A t1, t2 \in Transfers :
          /\ (t1.bytes = t2.bytes /\ t1.prefix = t2.prefix
                /\ t1.extension = t2.extension) => t1.key = t2.key
          /\ t1.key = t2.key => t1.bytes = t2.bytes
    /\ \A p, q \in Procs :
          (InCall(p) /\ InCall(q) /\ SameContent(p, q)) =>
              up[p].remote_path = up[q].remote_path
    /\ \A k \in DOMAIN store : \E t \in Transfers : t.key = k /\ t.bytes = store[k]
    /\ \A p \in Procs :
          GotLocator(p) =>
              /\ up[p].remote_path \in DOMAIN store
              /\ store[up[p].remote_path] = up[p].body
              /\ up[p].result.value = make_url(up[p].remote_path)

\* two processes raced: both probed before either transferred, both transferred
C10_Witness ==
    \E p, q \in Procs :
        /\ p # q
        /\ GotLocator(p) /\ GotLocator(q)
        /\ up[p].sent /\ up[q].sent
        /\ IsAbsence(up[p].probe) /\ IsAbsence(up[q].probe)
        /\ up[p].remote_path = up[q].remote_path
        /\ Cardinality(DOMAIN store) = 1
        /\ \E t \in Transfers : puts[t] = 2

----------------------------------------------------------------------------
LastCall == calls[Len(calls)]

\* a ClientError the code recognises: the no-op update, the stack-not-found
Recognised(call) ==
    \/ call.api = "update_stack" /\ Contains(call.resp.msg, NoUpdatesText)
    \/ call.api = "describe_stacks" /\ IsNotFound(call.resp)

\* C11: an update_stack ClientError other than 'No updates are to be
\* performed.' and a describe_stacks ClientError other than stack-not-found
\* leave the operation as the original ClientError, the same error with its
\* original cause.
C11_RemoteErrorsPropagate ==
    (/\ Len(calls) > 0
     /\ LastCall.api \in {"update_stack", "describe_stacks"}
     /\ LastCall.resp.kind = "error"
     /\ LastCall.resp.exc = "ClientError"
     /\ ~Recognised(LastCall)) =>
        outcome = Propagated(LastCall.resp)

\* C12: update() whose update_stack is answered 'No updates are to be
\* performed.' ends with UpdateStackError naming the stack, built from that
\* response, and the update-complete wait is not started.
C12_UpdateNoOp ==
    (/\ op = "update"
     /\ Len(calls) > 0
     /\ \E i \in 1..Len(calls) :
           /\ calls[i].api = "update_stack"
           /\ calls[i].resp.exc = "ClientError"
           /\ Contains(calls[i].resp.msg, NoUpdatesText)) =>
        /\ RaisedWith("UpdateStackError")
        /\ outcome.ctx = [stack_name |-> kwargs["StackName"]]
        /\ outcome.cause = LastCall.resp
        /\ LastCall.api = "update_stack"
        /\ ~Issued("wait:stack_update_complete")
        /\ pc = "idle"

C12_Witness ==
    /\ op = "update"
    /\ RaisedWith("UpdateStackError")
    /\ Len(calls) = 3
    /\ LastCall.api = "update_stack"
    /\ Contains(LastCall.resp.msg, NoUpdatesText)
    /\ DescribedExisting

----------------------------------------------------------------------------
ValidatingOps == {"deploy", "create", "update"}

\* validate_template was answered with a validation error
ValidateRejected ==
    /\ op \in ValidatingOps
    /\ Len(calls) >= 1
    /\ calls[1].api = "validate_template"
    /\ calls[1].resp.kind = "error"
    /\ calls[1].resp.exc \in {"ClientError", "ParamValidationError"}

\* the invocation is over and the request change_sets no template source
MissingSource ==
    /\ op \in ValidatingOps
    /\ ops > 0
    /\ pc = "idle"
    /\ "TemplateBody" \notin DOMAIN kwargs
    /\ "TemplateURL" \notin DOMAIN kwargs

OnlyValidateIssued == \A i \in 1..Len(calls) : calls[i].api = "validate_template"

\* C13 as stated: a validation failure, a missing template source included,
\* ends the invocation with TemplateValidationError, and the invocation
\* issues no describe_stacks, no change-set call and no mutating call.
C13_ValidateFailureIsTemplateInvalid ==
    (ValidateRejected \/ MissingSource) =>
        /\ RaisedWith("TemplateValidationError")
        /\ OnlyValidateIssued

\* C13, amended: a remote validation error ends the invocation with
\* TemplateValidationError carrying that error, a missing template source
\* ends it with TemplateNotSpecified before any remote call; in both cases
\* the invocation issues no describe_stacks, no change-set call and no
\* mutating call.
C13_ValidateFailureIsFatal ==
    /\ ValidateRejected =>
          /\ RaisedWith("TemplateValidationError")
          /\ outcome.cause = calls[1].resp
          /\ outcome.ctx = [error |-> calls[1].resp.msg]
          /\ Len(calls) = 1
          /\ pc = "idle"
    /\ MissingSource =>
          /\ RaisedWith("TemplateNotSpecified")
          /\ calls = <<>>

C13_Witness ==
    /\ ValidateRejected
    /\ op = "deploy"
    /\ ops = 2
    /\ RaisedWith("TemplateValidationError")
    /\ calls[1].resp.exc = "ClientError"

----------------------------------------------------------------------------
MutatingApis ==
    {"create_stack", "update_stack", "delete_stack", "create_change_set",
     "execute_change_set"}

TimesIssued(api) == Cardinality({i \in 1..Len(calls) : calls[i].api = api})

\* an error response, other than the stack-not-found answer to the existence
\* query (the code reads that one as "the stack is absent" and goes on)
DefinitiveFailure(call) ==
    /\ call.resp.kind = "error"
    /\ ~(call.api = "describe_stacks" /\ IsNotFound(call.resp))

\* C14: within one invocation each mutating call is issued at most once (no
\* remote call at all is issued twice), and a remote call that fails is the
\* last remote call of the invocation, which ends with an exception.
C14_NoRetry ==
    /\ \A api \in MutatingApis : TimesIssued(api) <= 1
    /\ \A i, j \in 1..Len(calls) : calls[i].api = calls[j].api => i = j
    /\ \A i \in 1..Len(calls) :
          DefinitiveFailure(calls[i]) =>
              /\ i = Len(calls)
              /\ pc = "idle"
              /\ outcome.status = "raised"

C14_Witness ==
    /\ op = "deploy"
    /\ ops = 2
    /\ Len(calls) = 5
    /\ LastCall.api = "execute_change_set"
    /\ DefinitiveFailure(LastCall)
    /\ outcome = Propagated(LastCall.resp)

----------------------------------------------------------------------------
\* the allow-list each remote call is filtered with (validate_template gets
\* its one field explicitly, without a filter)
AllowList(api) ==
    CASE api = "describe_stacks" -> DESCRIBE_STACKS
      [] api = "create_stack" -> CREATE_KWARGS
      [] api = "update_stack" -> UPDATE_KWARGS
      [] api = "delete_stack" -> DELETE_KWARGS
      [] api = "create_change_set" -> CREATE_CHANGE_SET_KWARGS
      [] api = "execute_change_set" -> EXECUTE_CHANGE_SET
      [] api = "wait:change_set_create_complete" -> WAIT_CHANGE_SET_KWARGS
      [] OTHER -> WAIT_KWARGS

Filtered == {i \in 1..Len(calls) : calls[i].api # "validate_template"}

\* the payload holds exactly the fields of d that are in the allow-list
PayloadOf(call, d) ==
    /\ DOMAIN call.args = {k \in DOMAIN d : k \in AllowList(call.api)}
    /\ \A k \in DOMAIN call.args : call.args[k] = d[k]

\* what the orchestrator itself changes in the request it was given
RequestState ==
    /\ DOMAIN request \subseteq DOMAIN kwargs
    /\ DOMAIN kwargs \subseteq (DOMAIN request) \cup {"ChangeSetName", "ChangeSetType"}
    /\ \A k \in DOMAIN request :
          \/ kwargs[k] = request[k]
          \/ k = "TemplateBody" /\ isfile(request[k]) /\ kwargs[k] = FileText(request[k])
          \/ k = "ChangeSetType" /\ kwargs[k] \in {"CREATE", "UPDATE"}

----------------------------------------------------------------------------
\* C16: when the caller supplied no ChangeSetName, any two deploy() runs
\* submit different ChangeSetName values; a supplied name is submitted
\* unchanged.
C16_SynthesisedNamesUnique ==
    /\ "ChangeSetName" \notin DOMAIN request =>
          \A i, j \in 1..Len(change_sets) :
              change_sets[i].name = change_sets[j].name => i = j
    /\ "ChangeSetName" \in DOMAIN request =>
          \A i \in 1..Len(change_sets) : change_sets[i].name = request["ChangeSetName"]

----------------------------------------------------------------------------
(* Reading the Package instance *)

BadTemplateInput(kw) ==
    "TemplateFile" \notin DOMAIN kw \/ ~isfile(kw["TemplateFile"])

OutputPathSupplied(kw) ==
    "OutputFile" \in DOMAIN kw /\ ~kw["OutputFile"].none

PackageOver == pkg.runs > 0 /\ pkg.pc = "idle"

\* C17: constructing a Package without TemplateFile fails with
\* TemplateNotSpecified, with a TemplateFile that is no file with
\* InvalidTemplatePathError, and in both cases before a session, a client or
\* an uploader is created.
C17_PackageInitFailsFast ==
    (pkg.state # "none" /\ BadTemplateInput(pkg.kwargs)) =>
        /\ pkg.state = "failed"
        /\ pkg.error = IF "TemplateFile" \notin DOMAIN pkg.kwargs
                          THEN "TemplateNotSpecified"
                          ELSE "InvalidTemplatePathError"
        /\ ~pkg.session
        /\ ~up[PackageProc].made

\* C18: package() with no output path, once the export has succeeded,
\* returns and leaves the file system as it was; a file is written only when
\* an output path was supplied.
C18_NoOutputPathNoWrite ==
    /\ (PackageOver /\ pkg.exported /\ ~OutputPathSupplied(pkg.kwargs)) =>
          /\ pkg.result.status = "returned"
          /\ fs = pkg.before
    /\ fs.files # EmptyDict => OutputPathSupplied(pkg.kwargs)

----------------------------------------------------------------------------
\* the describe_stacks answer shows a stack that is not just under review
ShowsExisting(resp) ==
    resp.kind = "ok" /\ resp.data["StackStatus"] # "REVIEW_IN_PROGRESS"

ShowsMissing(resp) ==
    \/ IsNotFound(resp)
    \/ resp.kind = "ok" /\ resp.data["StackStatus"] = "REVIEW_IN_PROGRESS"

\* C19: every create_change_set follows the invocation's own describe_stacks
\* and carries ChangeSetType UPDATE exactly when that answer shows a stack
\* whose status is not REVIEW_IN_PROGRESS, CREATE exactly when it shows the
\* stack absent or only in REVIEW_IN_PROGRESS, whatever type the caller
\* supplied or an earlier call left in the request.
C19_ChangeSetTypeFromDescribe ==
    \A j \in 1..Len(calls) :
        calls[j].api = "create_change_set" =>
            /\ j > 1
            /\ calls[j - 1].api = "describe_stacks"
            /\ calls[j].args["ChangeSetType"] \in {"CREATE", "UPDATE"}
            /\ calls[j].args["ChangeSetType"] = "UPDATE"
                  <=> ShowsExisting(calls[j - 1].resp)
            /\ calls[j].args["ChangeSetType"] = "CREATE"
                  <=> ShowsMissing(calls[j - 1].resp)

\* the caller supplied a type, the first run left UPDATE, the second run
\* found the stack gone
C19_Witness ==
    /\ "ChangeSetType" \in DOMAIN request
    /\ request["ChangeSetType"] = "IMPORT"
    /\ Len(change_sets) = 2
    /\ change_sets[1].type = "UPDATE"
    /\ change_sets[2].type = "CREATE"
    /\ IsNotFound(calls[Len(calls) - 1].resp)

ExecuteWaiters == {"wait:stack_create_complete", "wait:stack_update_complete"}

\* the type of the change set the invocation submitted before call j
SubmittedType(j) ==
    LET i == CHOOSE i \in 1..(j - 1) : calls[i].api = "create_change_set"
    IN calls[i].args["ChangeSetType"]

\* C20: in deploy() the wait after the execution is on the create-complete
\* waiter exactly when the change set submitted by the invocation had type
\* CREATE and on the update-complete waiter exactly when it had type UPDATE;
\* a WaiterError of that wait ends deploy() with DeployFailed carrying the
\* stack name and the waiter's error, never with success.
C20_WaitForExecute ==
    op = "deploy" =>
        /\ ~RaisedWith("UnboundLocalError")
        /\ \A j \in 1..Len(calls) :
              calls[j].api \in ExecuteWaiters =>
                  /\ \E i \in 1..(j - 1) : calls[i].api = "create_change_set"
                  /\ calls[j].api = "wait:stack_create_complete"
                        <=> SubmittedType(j) = "CREATE"
                  /\ calls[j].api = "wait:stack_update_complete"
                        <=> SubmittedType(j) = "UPDATE"
                  /\ calls[j].resp.exc = "WaiterError" =>
                        /\ RaisedWith("DeployFailed")
                        /\ outcome.ctx = [stack_name |-> kwargs["StackName"],
                                          ex |-> calls[j].resp.msg]
                        /\ outcome.cause = calls[j].resp
                        /\ j = Len(calls)
                        /\ pc = "idle"
        /\ (pc = "idle" /\ Issued("execute_change_set")
               /\ LastCall.api = "execute_change_set") => outcome.status = "raised"

C20_Witness ==
    /\ op = "deploy"
    /\ RaisedWith("DeployFailed")
    /\ LastCall.api = "wait:stack_create_complete"
    /\ LastCall.resp.exc = "WaiterError"
    /\ SubmittedType(Len(calls)) = "CREATE"
    /\ "ChangeSetType" \in DOMAIN request

----------------------------------------------------------------------------
ExistenceCheckedApis ==
    {"create_stack", "update_stack", "delete_stack", "create_change_set"}

\* the branch the code takes into call, given the describe_stacks answer
BranchDecidedBy(call, resp) ==
    CASE call.api = "create_stack" -> ShowsMissing(resp)
      [] call.api \in {"update_stack", "delete_stack"} -> ShowsExisting(resp)
      [] call.api = "create_change_set" ->
            /\ ShowsExisting(resp) \/ ShowsMissing(resp)
            /\ call.args["ChangeSetType"] =
                  IF ShowsExisting(resp) THEN "UPDATE" ELSE "CREATE"
      [] OTHER -> TRUE

\* C21: every create_stack, update_stack, delete_stack and create_change_set
\* is the call right after a describe_stacks of the same invocation, and the
\* answer of that query alone decides the branch: create_stack only after
\* "absent", update_stack and delete_stack only after "exists",
\* create_change_set with the type that answer gives; each invocation asks
\* once, and nothing an earlier invocation learnt is used.
C21_FreshDescribeBeforeMutation ==
    /\ \A j \in 1..Len(calls) :
          calls[j].api \in ExistenceCheckedApis =>
              /\ j > 1
              /\ calls[j - 1].api = "describe_stacks"
              /\ calls[j - 1].args = [StackName |-> kwargs["StackName"]]
              /\ BranchDecidedBy(calls[j], calls[j - 1].resp)
    /\ TimesIssued("describe_stacks") <= 1

\* the first invocation found the stack and submitted an UPDATE change set;
\* the second one, create(), asked again, found it gone and created it
C21_Witness ==
    /\ ops = 2
    /\ op = "create"
    /\ Len(change_sets) = 1
    /\ change_sets[1].type = "UPDATE"
    /\ Len(calls) >= 3
    /\ IsNotFound(calls[2].resp)
    /\ calls[3].api = "create_stack"

====
